---- MODULE Spec2Model ----
(***************************************************************************)
(* A model of astroplan/scheduling.py: the Scheduler driver, the two       *)
(* greedy strategies (SequentialScheduler, SummingScheduler), the          *)
(* Transitioner and the block objects they work on.                        *)
(*                                                                         *)
(* Time is counted in ticks of half a unit, so that duration/2 of every    *)
(* block duration used here is a whole number of ticks.  Python objects    *)
(* live in `heap` and lists hold references (object ids), so that what a   *)
(* shallow copy shares with the caller is visible.  None is the empty      *)
(* tuple and a set value v is <<v>>.                                       *)
(***************************************************************************)
EXTENDS Integers, Sequences, FiniteSets, TLC

VARIABLES
    scheduler,      \* the scheduler object: the fields __init__ sets
    heap,           \* object id -> ObservingBlock object
    caller_blocks,  \* the caller's list `blocks` handed to __call__ (ids)
    blocks,         \* _make_schedule's `blocks`: the pending copies (ids)
    new_blocks,     \* _make_schedule's `new_blocks`: the schedule so far
    current_time,   \* _make_schedule's `current_time`
    pc,             \* "idle", "loop", "returned" or "failed"
    error,          \* the exception that ended the call, "" if none
    result,         \* what __call__ returned: None, or <<schedule>>
    already_sorted, \* the flag _make_schedule hands back to __call__
    tblock,         \* a TransitionBlock in a client's hands, None if none
    other           \* a second call on the scheduler, while the first runs

vars == <<scheduler, heap, caller_blocks, blocks, new_blocks, current_time,
          pc, error, result, already_sorted, tblock, other>>

(* What the operations of a scheduling call leave alone *)
aside == <<tblock, other>>

----------------------------------------------------------------------------
(* Bounds of the model *)

MaxBlocks == 2

MaxWindow == 3

MaxGap == 2

(* The longest schedule the model follows.  With gap_time > 0 every loop   *)
(* iteration advances current_time by at least one tick and appends at     *)
(* most two entries, and with gap_time = 0 only an iteration that          *)
(* schedules a block advances the loop, so only a loop that no longer      *)
(* advances gets this far (CapOnlyStopsStuckLoop).                         *)
SchedCap == 2 * (IF MaxWindow > MaxBlocks THEN MaxWindow ELSE MaxBlocks) + 1

----------------------------------------------------------------------------
(* Values *)

None == <<>>

Some(v) == <<v>>

Last(s) == s[Len(s)]

(* A pop that hands back the item and leaves it in the list *)
RemoveNothing(s, i) == s

(* s.pop(i): the list without its i-th item *)
RemoveAt(s, i) == [k \in 1..(Len(s) - 1) |-> IF k < i THEN s[k] ELSE s[k + 1]]

RECURSIVE SeqSum(_)
SeqSum(s) == IF s = <<>> THEN 0 ELSE s[1] + SeqSum(Tail(s))

RECURSIVE SeqProd(_)
SeqProd(s) == IF s = <<>> THEN 1 ELSE s[1] * SeqProd(Tail(s))

RECURSIVE Flatten(_)
Flatten(ss) == IF ss = <<>> THEN <<>> ELSE ss[1] \o Flatten(Tail(ss))

----------------------------------------------------------------------------
(* The external collaborators, by behaviour *)

(* A constraint is a callable (observer, targets, times) -> scores.  The   *)
(* model names a few behaviours; Score is the score at one time.           *)
ConstraintNames == {"never", "dip", "strong", "broken"}

Score(c, t) ==
    CASE c = "always" -> 1
      [] c = "never"  -> 0
      [] c = "dip"    -> IF t = 1 THEN 0 ELSE 1
      [] c = "strong" -> 2
      [] c = "broken" -> -1

(* constraint(self.observer, [b.target], times): one score per time        *)
(* sample; the strategies always hand over three samples.                  *)
ConstraintCall(c, times) ==
    <<Score(c, times[1]), Score(c, times[2]), Score(c, times[3])>>

(* aaz[0].separation(aaz[1]): the angle between two targets *)
Separation(t1, t2) == IF t1 = t2 THEN 0 ELSE 1

----------------------------------------------------------------------------
(* The block objects *)

(* ObservingBlock.__init__; the three attributes a strategy adds later     *)
(* (_all_constraints, _duration_offsets, constraints_value) are None       *)
(* while the object does not have them.                                    *)
ObservingBlock(target, duration, constraints, priority) ==
    [target |-> target, duration |-> duration, constraints |-> constraints,
     priority |-> priority, start_time |-> None, end_time |-> None,
     all_constraints |-> None, duration_offsets |-> None,
     constraints_value |-> None]

(* TransitionBlock.components setter: duration is the sum of the values *)
RECURSIVE ComponentsDuration(_)
ComponentsDuration(val) ==
    IF DOMAIN val = {} THEN 0
    ELSE LET k == CHOOSE x \in DOMAIN val : TRUE
         IN  val[k] + ComponentsDuration([x \in DOMAIN val \ {k} |-> val[x]])

(* TransitionBlock.__init__ *)
TransitionBlock(components, start_time) ==
    [kind |-> "trans", start_time |-> start_time, components |-> components,
     duration |-> ComponentsDuration(components)]

(* A setter that stores the mapping and leaves duration as it was *)
ComponentsStored(tb, val) == [tb EXCEPT !.components = val]

(* tb.components = val, through the setter: duration is recomputed *)
SetComponents(tb, val) ==
    [tb EXCEPT !.components = val, !.duration = ComponentsDuration(val)]

(* A schedule entry that is an ObservingBlock: a reference into the heap *)
ObsEntry(id) == [kind |-> "obs", ref |-> id]

(* start_time and end_time of a schedule entry; TransitionBlock.end_time   *)
(* is the property start_time + duration.                                  *)
StartTime(h, e) ==
    IF e.kind = "obs" THEN h[e.ref].start_time[1] ELSE e.start_time

EndTime(h, e) ==
    IF e.kind = "obs" THEN h[e.ref].end_time[1] ELSE e.start_time + e.duration

----------------------------------------------------------------------------
(* Transitioner *)

(* Transitioner.__init__ *)
Transitioner(slew_rate, instrument_reconfig_times) ==
    [slew_rate |-> slew_rate,
     instrument_reconfig_times |-> instrument_reconfig_times]

(* A transitioner without the branch for a previous TransitionBlock *)
SlewOnlyAfterBlock(tr, h, oldblock, newblock) ==
    IF tr.slew_rate = None \/ oldblock.kind # "obs" THEN <<>>
    ELSE "slew_time" :>
            (Separation(h[oldblock.ref].target, newblock.target)
                \div tr.slew_rate[1])

(* The components Transitioner.__call__ has collected when it reaches the  *)
(* instrument_reconfig_times test.                                         *)
SlewComponents(tr, h, oldblock, newblock) ==
    IF tr.slew_rate = None THEN <<>>
    ELSE IF oldblock.kind = "obs"
         THEN "slew_time" :>
                (Separation(h[oldblock.ref].target, newblock.target)
                    \div tr.slew_rate[1])
         ELSE "slew_time" :> 0

(* The exception a transition computation raises, "" if none.  Calling a   *)
(* transitioner that is None is a TypeError; compute_instrument_transitions*)
(* is defined inside __call__ after its return statements, so it is no     *)
(* attribute of the object and looking it up is an AttributeError.         *)
TransitionerRaises(transitioner) ==
    IF transitioner = None THEN "TypeError"
    ELSE IF transitioner[1].instrument_reconfig_times # None
         THEN "AttributeError"
         ELSE ""

(* A transitioner that anchors its TransitionBlock at time 0 *)
TransitionerCallUnanchored(tr, h, oldblock, newblock, start_time) ==
    LET components == SlewComponents(tr, h, oldblock, newblock)
    IN  IF DOMAIN components # {}
        THEN Some(TransitionBlock(components, 0))
        ELSE None

(* Transitioner.__call__ when it raises nothing: None or <<TransitionBlock>>*)
TransitionerCall(tr, h, oldblock, newblock, start_time) ==
    LET components == SlewComponents(tr, h, oldblock, newblock)
    IN  IF DOMAIN components # {}
        THEN Some(TransitionBlock(components, start_time))
        ELSE None

----------------------------------------------------------------------------
(* Scheduler.__call__ and the two strategies *)

(* SequentialScheduler.__init__ and SummingScheduler.__init__ set the same *)
(* fields; `strategy` says which class the object is.  The observer is     *)
(* only handed on to the collaborators and is left out.                    *)
SchedulerObject(strategy, start_time, end_time, constraints, transitioner, gap_time) ==
    [strategy |-> strategy, start_time |-> start_time, end_time |-> end_time,
     constraints |-> constraints, transitioner |-> transitioner,
     gap_time |-> gap_time]

(* A driver that hands the caller's own objects to the strategy *)
SameObject(id, n) == id

(* copy.copy(block): a new object with the same attribute values.  With   *)
(* the ids up to n in use, the copy of object id is object id + n: the n   *)
(* objects of a caller have ids 1..n and their copies n+1..2n.             *)
CopyOf(id, n) == id + n

(* The highest object id in use *)
Allocated(h) ==
    IF DOMAIN h = {} THEN 0
    ELSE CHOOSE m \in DOMAIN h : \A x \in DOMAIN h : x <= m

(* b._all_constraints: the window-wide constraints, then the block's own *)
AllConstraints(constraints, b) ==
    IF b.constraints = None THEN constraints
    ELSE constraints \o b.constraints[1]

(* b._duration_offsets *)
DurationOffsets(duration) == <<0, duration \div 2, duration>>

(* The first loop of _make_schedule, on one block *)
Prepared(constraints, b) ==
    [b EXCEPT !.all_constraints = Some(AllConstraints(constraints, b)),
              !.duration_offsets = Some(DurationOffsets(b.duration))]

(* while (len(blocks) > 0) and (current_time < self.end_time) *)
LoopCondition == Len(blocks) > 0 /\ current_time < scheduler.end_time

(* The i-th pending block *)
Pending(i) == heap[blocks[i]]

(* block_transitions[i], when computing it raises nothing *)
BlockTransition(i) ==
    IF Len(new_blocks) > 0
    THEN TransitionerCall(scheduler.transitioner[1], heap, Last(new_blocks),
                          Pending(i), current_time)
    ELSE None

(* transition_time = 0*u.second if trans is None else trans.duration *)
TransitionTime(i) ==
    LET trans == BlockTransition(i)
    IN  IF trans = None THEN 0 ELSE trans[1].duration

(* times = current_time + transition_time + b._duration_offsets *)
Times(i) ==
    LET t == current_time + TransitionTime(i)
        offsets == Pending(i).duration_offsets[1]
    IN  <<t + offsets[1], t + offsets[2], t + offsets[3]>>

(* for constraint in b._all_constraints: constraint_res.append(...) *)
RECURSIVE EvaluateAll(_, _)
EvaluateAll(constraints, times) ==
    IF constraints = <<>> THEN <<>>
    ELSE <<ConstraintCall(Head(constraints), times)>>
            \o EvaluateAll(Tail(constraints), times)

(* constraint_res: one result (three scores) per effective constraint *)
ConstraintRes(i) == EvaluateAll(Pending(i).all_constraints[1], Times(i))

(* An aggregate that adds the scores up instead *)
SequentialResultSummed(constraint_res) == SeqSum(Flatten(constraint_res))

(* SequentialScheduler: np.prod(constraint_res), over constraints and times *)
SequentialResult(constraint_res) == SeqProd(Flatten(constraint_res))

(* SummingScheduler: `vetoed` once a constraint result is 0; a result is   *)
(* taken to be 0 when one of its samples is 0.                             *)
Vetoed(constraint_res) ==
    \E j \in 1..Len(constraint_res) :
        \E k \in 1..Len(constraint_res[j]) : constraint_res[j][k] = 0

(* An aggregate that forgets the veto *)
SummingResultUnvetoed(priority, constraint_res) ==
    priority * SeqSum(Flatten(constraint_res))

(* SummingScheduler: b.priority*np.sum(constraint_res), or 0 when vetoed *)
SummingResult(priority, constraint_res) ==
    IF ~Vetoed(constraint_res)
    THEN priority * SeqSum(Flatten(constraint_res))
    ELSE 0

(* A strategy without the assertion *)
AssertionSkipped(constraint_res) == FALSE

(* SummingScheduler: assert constraint_result >= 0 fails *)
AssertionFails(constraint_res) ==
    \E j \in 1..Len(constraint_res) :
        \E k \in 1..Len(constraint_res[j]) : constraint_res[j][k] < 0

(* The exception scoring the i-th pending block raises, "" if none *)
BlockRaises(i) ==
    IF Len(new_blocks) > 0 /\ TransitionerRaises(scheduler.transitioner) # ""
    THEN TransitionerRaises(scheduler.transitioner)
    ELSE IF scheduler.strategy = "Summing" /\ AssertionFails(ConstraintRes(i))
         THEN "AssertionError"
         ELSE ""

(* The exception the `for b in blocks` loop raises: that of the first      *)
(* block whose scoring raises one.                                         *)
RECURSIVE RaisesFrom(_)
RaisesFrom(i) ==
    IF i > Len(blocks) THEN ""
    ELSE LET raised == BlockRaises(i)
         IN  IF raised # "" THEN raised ELSE RaisesFrom(i + 1)

IterationRaises == RaisesFrom(1)

(* What the strategy appends to block_constraint_results for block i *)
BlockResult(i) ==
    IF scheduler.strategy = "Sequential"
    THEN SequentialResult(ConstraintRes(i))
    ELSE SummingResult(Pending(i).priority, ConstraintRes(i))

(* block_constraint_results, from the i-th pending block on *)
RECURSIVE ResultsFrom(_)
ResultsFrom(i) ==
    IF i > Len(blocks) THEN <<>> ELSE <<BlockResult(i)>> \o ResultsFrom(i + 1)

(* block_constraint_results *)
BlockConstraintResults == ResultsFrom(1)

(* An argmax that returns the last index of the maximum *)
ArgMaxLast(s) ==
    CHOOSE i \in 1..Len(s) :
        /\ \A j \in 1..Len(s) : s[j] <= s[i]
        /\ \A j \in (i + 1)..Len(s) : s[j] < s[i]

(* np.argmax: the first index of the maximum *)
ArgMax(s) ==
    CHOOSE i \in 1..Len(s) :
        /\ \A j \in 1..Len(s) : s[j] <= s[i]
        /\ \A j \in 1..(i - 1) : s[j] < s[i]

(* A gap anchored at the start of the window instead of current_time *)
GapBlockAtWindowStart(gap_time, start_time) ==
    TransitionBlock("nothing_observable" :> gap_time, 0)

(* TransitionBlock({'nothing_observable': self.gap_time}, current_time) *)
GapBlock(gap_time, start_time) ==
    TransitionBlock("nothing_observable" :> gap_time, start_time)

(* A strategy that appends the transition without advancing the clock *)
TransitionNotCounted(t, trans) == t

(* current_time += trans.duration, after new_blocks.append(trans) *)
AfterTransition(t, trans) == t + trans.duration

(* newb.end_time: current_time after `current_time += self.gap_time` *)
BlockEnd(start_time, b, gap_time) == start_time + gap_time

(* Both strategies return already_sorted = True *)
AlreadySorted == TRUE

(* Scheduler.__call__, `if not already_sorted`: a dict from start_time to  *)
(* block (a later block replaces an earlier one with the same start_time), *)
(* listed by sorted key.                                                   *)
RECURSIVE SortedKeys(_)
SortedKeys(keys) ==
    IF keys = {} THEN <<>>
    ELSE LET m == CHOOSE x \in keys : \A y \in keys : x <= y
         IN  <<m>> \o SortedKeys(keys \ {m})

SortByStartTime(h, nb) ==
    LET keys == {StartTime(h, nb[i]) : i \in 1..Len(nb)}
        block_time_map == [t \in keys |->
            nb[CHOOSE i \in 1..Len(nb) :
                /\ StartTime(h, nb[i]) = t
                /\ \A j \in (i + 1)..Len(nb) : StartTime(h, nb[j]) # t]]
        sorted == SortedKeys(keys)
    IN  [k \in 1..Len(sorted) |-> block_time_map[sorted[k]]]

----------------------------------------------------------------------------
(* The state after construction: a scheduler object and the caller's list  *)
(* of unscheduled ObservingBlocks.                                         *)

Strategies == {"Sequential", "Summing"}

(* The priorities SummingScheduler weighs with: none and double *)
Priorities == {0, 2}

WindowConstraintChoices == {<<>>, <<"always">>}

BlockConstraintChoices == {None} \cup {Some(<<c>>) : c \in ConstraintNames}

ReconfigTable == "filter" :> (<<"B", "V">> :> 1)

TransitionerChoices ==
    {None,
     Some(Transitioner(None, None)),
     Some(Transitioner(Some(1), None)),
     Some(Transitioner(None, Some(ReconfigTable)))}

(* The durations of a list's blocks: 2, 4, 6, ... ticks *)
DurationAt(i) == 2 * i

(* The targets of a list's blocks: one target for all, or one each *)
TargetPatterns == {"same", "distinct"}

TargetAt(pattern, i) == IF pattern = "same" THEN 1 ELSE i

(* Fields the configured code never reads are left at one value: the       *)
(* targets without a slew rate, the priorities under SequentialScheduler.  *)
ReadsTargets(tr) == tr # None /\ tr[1].slew_rate # None

Init ==
    /\ \E s \in Strategies, tr \in TransitionerChoices, g \in 0..MaxGap,
          c \in WindowConstraintChoices, n \in 0..MaxBlocks,
          tp \in TargetPatterns :
          /\ ReadsTargets(tr) \/ tp = "same"
          /\ scheduler = SchedulerObject(s, 0, MaxWindow, c, tr, g)
          /\ \E cs \in [1..n -> BlockConstraintChoices],
                ps \in [1..n -> IF s = "Summing" THEN Priorities ELSE {1}] :
                heap = [i \in 1..n |->
                          ObservingBlock(TargetAt(tp, i), DurationAt(i),
                                         cs[i], ps[i])]
          /\ caller_blocks = [i \in 1..n |-> i]
    /\ blocks = <<>>
    /\ new_blocks = <<>>
    /\ current_time = 0
    /\ pc = "idle"
    /\ error = ""
    /\ result = None
    /\ already_sorted = AlreadySorted
    /\ tblock = None
    /\ other = None

----------------------------------------------------------------------------
(* The operations *)

(* Scheduler.__call__ up to the while loop of _make_schedule: the copies,  *)
(* their _all_constraints and _duration_offsets, new_blocks, current_time. *)
Call ==
    /\ pc = "idle"
    /\ LET n == Len(caller_blocks)
           copied_blocks ==
               [i \in 1..n |-> CopyOf(caller_blocks[i], Allocated(heap))]
           copies == {copied_blocks[i] : i \in 1..n}
           source(id) == CHOOSE i \in 1..n : copied_blocks[i] = id
       IN  /\ heap' = [id \in DOMAIN heap \cup copies |->
                          IF id \in copies
                          THEN Prepared(scheduler.constraints,
                                        heap[caller_blocks[source(id)]])
                          ELSE heap[id]]
           /\ blocks' = copied_blocks
    /\ new_blocks' = <<>>
    /\ current_time' = scheduler.start_time
    /\ pc' = "loop"
    /\ UNCHANGED <<scheduler, caller_blocks, error, result, already_sorted>>
    /\ UNCHANGED aside

(* The model follows a schedule up to SchedCap entries *)
WithinCap == Len(new_blocks) + 2 <= SchedCap

(* One loop iteration in which even the best block scores 0: a gap *)
GapStep ==
    /\ pc = "loop"
    /\ LoopCondition
    /\ WithinCap
    /\ IterationRaises = ""
    /\ LET block_constraint_results == BlockConstraintResults
           bestblock_idx == ArgMax(block_constraint_results)
       IN  block_constraint_results[bestblock_idx] = 0
    /\ new_blocks' =
          Append(new_blocks, GapBlock(scheduler.gap_time, current_time))
    /\ current_time' = current_time + scheduler.gap_time
    /\ UNCHANGED <<scheduler, heap, caller_blocks, blocks, pc, error, result,
                   already_sorted>>
    /\ UNCHANGED aside

(* One loop iteration that schedules the best block, after its transition *)
CommitStep ==
    /\ pc = "loop"
    /\ LoopCondition
    /\ WithinCap
    /\ IterationRaises = ""
    /\ LET block_constraint_results == BlockConstraintResults
           bestblock_idx == ArgMax(block_constraint_results)
           trans == BlockTransition(bestblock_idx)
           newb == blocks[bestblock_idx]
           start_time == IF trans # None
                         THEN AfterTransition(current_time, trans[1])
                         ELSE current_time
           end_time == BlockEnd(start_time, heap[newb], scheduler.gap_time)
       IN  /\ block_constraint_results[bestblock_idx] # 0
           /\ heap' = [heap EXCEPT ![newb] =
                          [@ EXCEPT !.start_time = Some(start_time),
                                    !.end_time = Some(end_time),
                                    !.constraints_value = Some(
                                        block_constraint_results[bestblock_idx])]]
           /\ blocks' = RemoveAt(blocks, bestblock_idx)
           /\ new_blocks' =
                 (IF trans # None THEN Append(new_blocks, trans[1])
                  ELSE new_blocks) \o <<ObsEntry(newb)>>
           /\ current_time' = end_time
    /\ UNCHANGED <<scheduler, caller_blocks, pc, error, result, already_sorted>>
    /\ UNCHANGED aside

(* One loop iteration in which scoring a block raises: the call ends with  *)
(* the exception and returns nothing.                                      *)
RaiseStep ==
    /\ pc = "loop"
    /\ LoopCondition
    /\ IterationRaises # ""
    /\ pc' = "failed"
    /\ error' = IterationRaises
    /\ UNCHANGED <<scheduler, heap, caller_blocks, blocks, new_blocks,
                   current_time, result, already_sorted>>
    /\ UNCHANGED aside

(* The loop ends; __call__ sorts if it has to and returns the schedule *)
Return ==
    /\ pc = "loop"
    /\ ~LoopCondition
    /\ result' = Some(IF already_sorted THEN new_blocks
                      ELSE SortByStartTime(heap, new_blocks))
    /\ pc' = "returned"
    /\ UNCHANGED <<scheduler, heap, caller_blocks, blocks, new_blocks,
                   current_time, error, already_sorted>>
    /\ UNCHANGED aside

Next == Call \/ GapStep \/ CommitStep \/ RaiseStep \/ Return

Spec == Init /\ [][Next]_vars

(* The cap stops only a loop that has stopped advancing: gap_time is 0     *)
(* and the last entry is a gap at current_time.                            *)
CapOnlyStopsStuckLoop ==
    (pc = "loop" /\ LoopCondition /\ ~WithinCap) =>
        /\ scheduler.gap_time = 0
        /\ Last(new_blocks) = GapBlock(0, current_time)

----------------------------------------------------------------------------
(* The driver on what a strategy may hand back.  _make_schedule is         *)
(* abstract: a subclass hands back any list of scheduled ObservingBlocks   *)
(* and TransitionBlocks, in any order, and the flag that says whether the  *)
(* list is in order.                                                       *)

(* An ObservingBlock a strategy has given its times *)
ScheduledBlock(start_time, end_time) ==
    [ObservingBlock(1, 2, None, 1) EXCEPT !.start_time = Some(start_time),
                                          !.end_time = Some(end_time)]

(* The entries of such a list, which holds none twice: the blocks of the   *)
(* heap and slews of no or one tick that start anywhere in the window.     *)
StrategyEntries(h) ==
    {ObsEntry(id) : id \in DOMAIN h}
        \cup {TransitionBlock("slew_time" :> d, t) :
                d \in 0..1, t \in 0..MaxWindow}

SortInit ==
    /\ scheduler = SchedulerObject("Subclass", 0, MaxWindow, <<>>, None, 1)
    /\ heap = [i \in 1..MaxBlocks |-> ScheduledBlock(i - 1, i)]
    /\ caller_blocks = <<>>
    /\ blocks = <<>>
    /\ \E n \in 0..(MaxBlocks + 1) :
          new_blocks \in [1..n -> StrategyEntries(heap)]
    /\ \A i, j \in 1..Len(new_blocks) : i # j => new_blocks[i] # new_blocks[j]
    /\ current_time = MaxWindow
    /\ pc = "loop"
    /\ error = ""
    /\ result = None
    /\ already_sorted \in BOOLEAN
    /\ tblock = None
    /\ other = None

SortSpec == SortInit /\ [][Return]_vars

----------------------------------------------------------------------------
(* A TransitionBlock in the hands of a client: constructed, then given new *)
(* components or a new start_time any number of times.                     *)

ComponentKeys == {"slew_time", "nothing_observable", "filter:B to V"}

(* The mappings from some of the keys to a time of 0..MaxGap ticks *)
ComponentChoices ==
    UNION {[keys -> 0..MaxGap] : keys \in SUBSET ComponentKeys}

BlockInit ==
    /\ scheduler = SchedulerObject("Sequential", 0, MaxWindow, <<>>, None, 1)
    /\ heap = <<>>
    /\ caller_blocks = <<>>
    /\ blocks = <<>>
    /\ new_blocks = <<>>
    /\ current_time = 0
    /\ pc = "client"
    /\ error = ""
    /\ result = None
    /\ already_sorted = AlreadySorted
    /\ tblock = None
    /\ other = None

(* tblock = TransitionBlock(components, start_time) *)
Construct ==
    /\ \E components \in ComponentChoices, start_time \in 0..MaxWindow :
          tblock' = Some(TransitionBlock(components, start_time))
    /\ pc' = "constructed"
    /\ UNCHANGED <<scheduler, heap, caller_blocks, blocks, new_blocks,
                   current_time, error, result, already_sorted, other>>

(* tblock.components = val *)
AssignComponents ==
    /\ tblock # None
    /\ \E val \in ComponentChoices :
          tblock' = Some(SetComponents(tblock[1], val))
    /\ pc' = "components assigned"
    /\ UNCHANGED <<scheduler, heap, caller_blocks, blocks, new_blocks,
                   current_time, error, result, already_sorted, other>>

(* tblock.start_time = start_time *)
AssignStartTime ==
    /\ tblock # None
    /\ \E start_time \in 0..MaxWindow :
          tblock' = Some([tblock[1] EXCEPT !.start_time = start_time])
    /\ pc' = "start_time assigned"
    /\ UNCHANGED <<scheduler, heap, caller_blocks, blocks, new_blocks,
                   current_time, error, result, already_sorted, other>>

BlockNext == Construct \/ AssignComponents \/ AssignStartTime

BlockSpec == BlockInit /\ [][BlockNext]_vars

----------------------------------------------------------------------------
(* Two calls on one scheduler object, from two threads.  The variables of  *)
(* a call hold the call of the thread that runs; `other` holds the call of *)
(* the thread that waits, and Switch hands the processor over.  The heap   *)
(* and the scheduler object are shared.                                    *)

(* The call of the running thread, as `other` holds it while it waits *)
ThisCall(name) ==
    [name |-> name, caller_blocks |-> caller_blocks, blocks |-> blocks,
     new_blocks |-> new_blocks, current_time |-> current_time, pc |-> pc,
     error |-> error, result |-> result]

(* A call that has not started *)
IdleCall(name, list) ==
    [name |-> name, caller_blocks |-> list, blocks |-> <<>>,
     new_blocks |-> <<>>, current_time |-> 0, pc |-> "idle", error |-> "",
     result |-> None]

OtherName(name) == IF name = "first" THEN "second" ELSE "first"

(* The lists, without repeats, of some of the objects 1..n *)
ListsOf(n) ==
    {l \in UNION {[1..k -> 1..n] : k \in 0..n} :
        \A i, j \in 1..Len(l) : i # j => l[i] # l[j]}

ConcTransitioners == {None, Some(Transitioner(Some(1), None))}

ConcConstraintChoices == {None, Some(<<"dip">>)}

(* One scheduler with gap_time > 0 and MaxBlocks blocks; the first call is *)
(* handed all of them, the second another list of some of them.            *)
ConcInit ==
    /\ \E s \in Strategies, tr \in ConcTransitioners, g \in 1..MaxGap :
          scheduler = SchedulerObject(s, 0, MaxWindow, <<"always">>, tr, g)
    /\ \E cs \in [1..MaxBlocks -> ConcConstraintChoices] :
          heap = [i \in 1..MaxBlocks |->
                    ObservingBlock(i, DurationAt(i), cs[i], 1)]
    /\ caller_blocks = [i \in 1..MaxBlocks |-> i]
    /\ \E l \in ListsOf(MaxBlocks) \ {[i \in 1..MaxBlocks |-> i]} :
          other = Some(IdleCall("second", l))
    /\ blocks = <<>>
    /\ new_blocks = <<>>
    /\ current_time = 0
    /\ pc = "idle"
    /\ error = ""
    /\ result = None
    /\ already_sorted = AlreadySorted
    /\ tblock = None

(* The running thread is descheduled and the waiting one goes on *)
Switch ==
    /\ other # None
    /\ other[1].pc \in {"idle", "loop"}
    /\ other' = Some(ThisCall(OtherName(other[1].name)))
    /\ caller_blocks' = other[1].caller_blocks
    /\ blocks' = other[1].blocks
    /\ new_blocks' = other[1].new_blocks
    /\ current_time' = other[1].current_time
    /\ pc' = other[1].pc
    /\ error' = other[1].error
    /\ result' = other[1].result
    /\ UNCHANGED <<scheduler, heap, already_sorted, tblock>>

ConcNext == Call \/ GapStep \/ CommitStep \/ RaiseStep \/ Return \/ Switch

ConcSpec == ConcInit /\ [][ConcNext]_vars

----------------------------------------------------------------------------
(* The claims *)

(* The schedule a finished call returned *)
Returned == pc = "returned"

Schedule == result[1]

ObsIndices(nb) == {i \in 1..Len(nb) : nb[i].kind = "obs"}

Max2(a, b) == IF a > b THEN a ELSE b

Min2(a, b) == IF a < b THEN a ELSE b

(* C1: every ObservingBlock of a returned schedule has                     *)
(* end_time - start_time equal to its duration.                            *)
C1_BlockLastsItsDuration ==
    Returned =>
        \A i \in ObsIndices(Schedule) :
            LET b == heap[Schedule[i].ref]
            IN  b.end_time[1] - b.start_time[1] = b.duration

(* C2: in every returned schedule the entries are in non-decreasing        *)
(* start_time order and no two distinct entries' half-open intervals       *)
(* [start_time, end_time) have a time in common.                           *)
C2_SortedAndDisjoint ==
    Returned =>
        /\ \A i \in 1..(Len(Schedule) - 1) :
              StartTime(heap, Schedule[i]) <= StartTime(heap, Schedule[i + 1])
        /\ \A i, j \in 1..Len(Schedule) :
              i < j =>
                ~(Max2(StartTime(heap, Schedule[i]),
                       StartTime(heap, Schedule[j]))
                    < Min2(EndTime(heap, Schedule[i]),
                           EndTime(heap, Schedule[j])))

(* C2's case: a returned schedule with a transition that takes time        *)
(* between two blocks that take time.                                      *)
C2_Witness ==
    /\ Returned
    /\ \E i \in 2..(Len(Schedule) - 1) :
          /\ Schedule[i - 1].kind = "obs"
          /\ Schedule[i].kind = "trans" /\ Schedule[i].duration > 0
          /\ Schedule[i + 1].kind = "obs"
          /\ scheduler.gap_time > 0

(* C3: every entry of a returned schedule lies within the window *)
C3_WithinWindow ==
    Returned =>
        \A i \in 1..Len(Schedule) :
            /\ scheduler.start_time <= StartTime(heap, Schedule[i])
            /\ EndTime(heap, Schedule[i]) <= scheduler.end_time

(* What a loop iteration reads besides the scheduler and the pending       *)
(* blocks' own fields, which no iteration changes while they are pending.  *)
LoopReads == <<blocks, current_time, Last(new_blocks)>>

(* C4: the loop ends after finitely many iterations.  An iteration's       *)
(* outcome is a function of what it reads, so a loop that ends never goes  *)
(* round leaving all of that as it was: such an iteration is followed by   *)
(* the same iteration for ever.                                            *)
C4_LoopComesToAnEnd ==
    [][(pc = "loop" /\ pc' = "loop" /\ new_blocks # <<>>)
          => LoopReads' # LoopReads]_vars

(* C5: no step changes the caller's list or any of the caller's blocks,    *)
(* which stay unscheduled.                                                 *)
C5_CallerInputUntouched ==
    [][/\ caller_blocks' = caller_blocks
       /\ \A i \in 1..Len(caller_blocks) :
             /\ heap'[caller_blocks[i]] = heap[caller_blocks[i]]
             /\ heap'[caller_blocks[i]].start_time = None
             /\ heap'[caller_blocks[i]].end_time = None]_vars

(* C5's case: a call has returned a schedule in which a copy was given     *)
(* its times.                                                              *)
C5_Witness ==
    /\ Returned
    /\ \E i \in ObsIndices(Schedule) :
          /\ heap[Schedule[i].ref].start_time # None
          /\ heap[Schedule[i].ref].constraints_value # None

(* C6: a call on a scheduler constructed without a transitioner does not   *)
(* fail.                                                                   *)
C6_NoTransitionerNoFailure ==
    scheduler.transitioner = None => pc # "failed"

(* A loop iteration that scores every pending block *)
Scoring == pc = "loop" /\ LoopCondition /\ IterationRaises = ""

(* The maximum aggregate score over the pending blocks *)
MaxResult ==
    LET r == BlockConstraintResults
    IN  CHOOSE m \in {r[i] : i \in 1..Len(r)} : \A j \in 1..Len(r) : r[j] <= m

(* C7: an iteration whose maximum aggregate score is 0 appends exactly one *)
(* TransitionBlock {"nothing_observable": gap_time} starting at            *)
(* current_time, advances current_time by gap_time and leaves the pending  *)
(* list as it was.                                                         *)
C7_GapStep ==
    [][(Scoring /\ MaxResult = 0) =>
          /\ new_blocks' = Append(new_blocks,
                [kind |-> "trans", start_time |-> current_time,
                 components |->
                    [k \in {"nothing_observable"} |-> scheduler.gap_time],
                 duration |-> scheduler.gap_time])
          /\ current_time' = current_time + scheduler.gap_time
          /\ blocks' = blocks
          /\ heap' = heap]_vars

(* C7's case: a gap of positive length was appended after the start of     *)
(* the window, with every block still pending.                             *)
C7_Witness ==
    /\ new_blocks # <<>>
    /\ Last(new_blocks).kind = "trans"
    /\ DOMAIN Last(new_blocks).components = {"nothing_observable"}
    /\ Last(new_blocks).start_time > scheduler.start_time
    /\ scheduler.gap_time > 0
    /\ Len(blocks) = Len(caller_blocks)

(* The references of the ObservingBlocks of a schedule, in order *)
RECURSIVE ObsRefs(_)
ObsRefs(nb) ==
    IF nb = <<>> THEN <<>>
    ELSE (IF nb[1].kind = "obs" THEN <<nb[1].ref>> ELSE <<>>)
            \o ObsRefs(Tail(nb))

(* Every block scores the same positive value at every time: no block has  *)
(* constraints of its own, and under SummingScheduler the window-wide      *)
(* constraint scores and the priorities are equal and positive.            *)
EqualPositiveScores ==
    /\ \A i \in 1..Len(caller_blocks) :
          /\ heap[caller_blocks[i]].constraints = None
          /\ heap[caller_blocks[i]].priority
                = heap[caller_blocks[1]].priority
          /\ heap[caller_blocks[i]].priority > 0
    /\ scheduler.strategy = "Summing" => scheduler.constraints # <<>>

(* C8: an iteration with a positive maximum schedules the first pending    *)
(* block whose aggregate score is the maximum; so blocks that always       *)
(* score the same positive value are scheduled in list order, the first    *)
(* at the start of the window.                                             *)
C8_FirstBestIsScheduled ==
    /\ [][(Scoring /\ MaxResult > 0) =>
            \E i \in 1..Len(blocks) :
                /\ BlockConstraintResults[i] = MaxResult
                /\ \A j \in 1..(i - 1) : BlockConstraintResults[j] # MaxResult
                /\ blocks' = RemoveAt(blocks, i)
                /\ Last(new_blocks') = ObsEntry(blocks[i])
                /\ heap'[blocks[i]].start_time # None
                /\ heap'[blocks[i]].constraints_value = Some(MaxResult)]_vars
    /\ []((Returned /\ EqualPositiveScores) =>
            LET refs == ObsRefs(Schedule)
            IN  /\ \A k \in 1..Len(refs) : refs[k] = Len(caller_blocks) + k
                /\ Schedule # <<>> =>
                      /\ Schedule[1].kind = "obs"
                      /\ heap[Schedule[1].ref].start_time
                            = Some(scheduler.start_time))

(* C8's case: two equally scoring blocks were both scheduled *)
C8_Witness ==
    /\ Returned
    /\ EqualPositiveScores
    /\ Len(ObsRefs(Schedule)) >= 2

(* The effective constraints of the i-th pending block: the window-wide    *)
(* ones, then its own.                                                     *)
EffectiveConstraints(i) ==
    scheduler.constraints
        \o (IF Pending(i).constraints = None THEN <<>>
            ELSE Pending(i).constraints[1])

(* The three sample times of the i-th pending block *)
SampleTimes(i) ==
    <<current_time + TransitionTime(i),
      current_time + TransitionTime(i) + Pending(i).duration \div 2,
      current_time + TransitionTime(i) + Pending(i).duration>>

(* Some effective constraint of the i-th pending block scores 0 at one of  *)
(* its samples.                                                            *)
SomeZero(i) ==
    \E j \in 1..Len(EffectiveConstraints(i)) : \E k \in 1..3 :
        Score(EffectiveConstraints(i)[j], SampleTimes(i)[k]) = 0

(* Some effective constraint scores above 0 at one of its samples *)
SomePositive(i) ==
    \E j \in 1..Len(EffectiveConstraints(i)) : \E k \in 1..3 :
        Score(EffectiveConstraints(i)[j], SampleTimes(i)[k]) > 0

RECURSIVE ProductOfScores(_, _)
ProductOfScores(cs, ts) ==
    IF cs = <<>> THEN 1
    ELSE Score(cs[1], ts[1]) * Score(cs[1], ts[2]) * Score(cs[1], ts[3])
            * ProductOfScores(Tail(cs), ts)

RECURSIVE SumOfScores(_, _)
SumOfScores(cs, ts) ==
    IF cs = <<>> THEN 0
    ELSE Score(cs[1], ts[1]) + Score(cs[1], ts[2]) + Score(cs[1], ts[3])
            + SumOfScores(Tail(cs), ts)

(* C9: under SequentialScheduler the aggregate score of every pending      *)
(* block is the product of the scores of its effective constraints at its  *)
(* three sample times; with a 0 among them the aggregate is 0 and the      *)
(* iteration does not schedule that block.                                 *)
C9_VetoByProduct ==
    /\ []((Scoring /\ scheduler.strategy = "Sequential") =>
            \A i \in 1..Len(blocks) :
                /\ BlockResult(i)
                      = ProductOfScores(EffectiveConstraints(i), SampleTimes(i))
                /\ SomeZero(i) => BlockResult(i) = 0)
    /\ [][(Scoring /\ scheduler.strategy = "Sequential") =>
            \A i \in 1..Len(blocks) :
                SomeZero(i) => heap'[blocks[i]].start_time = None]_vars

(* C9's case: after a first step, a pending block scores 0 at one sample   *)
(* and above 0 at another.                                                 *)
C9_Witness ==
    /\ Scoring
    /\ scheduler.strategy = "Sequential"
    /\ new_blocks # <<>>
    /\ \E i \in 1..Len(blocks) : SomeZero(i) /\ SomePositive(i)

C11_TransitionerResult ==
    (pc = "loop" /\ LoopCondition /\ new_blocks # <<>>
        /\ scheduler.transitioner # None) =>
        /\ TransitionerRaises(scheduler.transitioner) = ""
        /\ \A i \in 1..Len(blocks) :
              LET keys == IF scheduler.transitioner[1].slew_rate # None
                          THEN {"slew_time"} ELSE {}
                  trans == BlockTransition(i)
              IN  /\ (trans = None) <=> (keys = {})
                  /\ trans # None =>
                        /\ trans[1].start_time = current_time
                        /\ DOMAIN trans[1].components = keys

(* SequentialScheduler called with one block whose sole constraint scores  *)
(* 0 at every time                                                         *)
AllVetoedScenario ==
    /\ scheduler.strategy = "Sequential"
    /\ scheduler.constraints = <<>>
    /\ Len(caller_blocks) = 1
    /\ heap[caller_blocks[1]].constraints = Some(<<"never">>)

(* C12: in that scenario the call does not fail; the schedule it builds    *)
(* and returns holds only TransitionBlocks {"nothing_observable":          *)
(* gap_time}, the k-th starting (k - 1) x gap_time after the start of the  *)
(* window; it returns once current_time has reached the end of the window; *)
(* the block is never in the schedule and is never given a start_time.     *)
C12_AllVetoedFillsWindow ==
    AllVetoedScenario =>
        /\ pc # "failed"
        /\ \A k \in 1..Len(new_blocks) :
              new_blocks[k] =
                [kind |-> "trans",
                 start_time |-> scheduler.start_time
                                    + (k - 1) * scheduler.gap_time,
                 components |->
                    [c \in {"nothing_observable"} |-> scheduler.gap_time],
                 duration |-> scheduler.gap_time]
        /\ \A id \in DOMAIN heap : heap[id].start_time = None
        /\ Returned =>
              /\ Schedule = new_blocks
              /\ Schedule # <<>>
              /\ current_time >= scheduler.end_time

(* The i-th pending block has an effective constraint that returns a       *)
(* negative score at one of its sample times.                              *)
SomeNegative(i) ==
    \E j \in 1..Len(EffectiveConstraints(i)) : \E k \in 1..3 :
        Score(EffectiveConstraints(i)[j], SampleTimes(i)[k]) < 0

(* A SummingScheduler iteration in which a constraint returns a negative   *)
(* score: the transitions are computed and some pending block has one.     *)
NegativeScoreReturned ==
    /\ pc = "loop"
    /\ LoopCondition
    /\ scheduler.strategy = "Summing"
    /\ new_blocks = <<>> \/ TransitionerRaises(scheduler.transitioner) = ""
    /\ \E i \in 1..Len(blocks) : SomeNegative(i)

(* C13: a SummingScheduler iteration in which a constraint returns a       *)
(* negative score ends the call with the assertion's failure: nothing is   *)
(* returned, no block is scheduled and no gap is appended.                 *)
C13_NegativeScoreAborts ==
    /\ [][NegativeScoreReturned =>
            /\ pc' = "failed"
            /\ error' = "AssertionError"
            /\ result' = None
            /\ new_blocks' = new_blocks
            /\ blocks' = blocks
            /\ heap' = heap]_vars
    /\ [](pc = "failed" => result = None)

(* C13's case: the call failed on the assertion after the first pending    *)
(* block was scored above 0 and before the second, which has the negative  *)
(* score, was.                                                             *)
C13_Witness ==
    /\ pc = "failed"
    /\ error = "AssertionError"
    /\ Len(blocks) = 2
    /\ ~SomeNegative(1) /\ ~SomeZero(1) /\ Pending(1).priority > 0
    /\ SomeNegative(2)

(* a and b hold the same entries, each as often as the other *)
IsPermutation(a, b) ==
    /\ Len(a) = Len(b)
    /\ \E f \in [1..Len(a) -> 1..Len(a)] :
          /\ \A i, j \in 1..Len(a) : i # j => f[i] # f[j]
          /\ \A i \in 1..Len(a) : a[i] = b[f[i]]

(* C14: when the strategy hands back already_sorted = False the driver     *)
(* returns the entries of new_blocks, none lost and none twice, in         *)
(* non-decreasing start_time order; when it hands back True the driver     *)
(* returns new_blocks as it is.                                            *)
C14_DriverSort ==
    Returned =>
        IF already_sorted THEN Schedule = new_blocks
        ELSE /\ IsPermutation(Schedule, new_blocks)
             /\ \A i \in 1..(Len(Schedule) - 1) :
                   StartTime(heap, Schedule[i])
                        <= StartTime(heap, Schedule[i + 1])

(* The sum of the values of a components mapping, key by key *)
RECURSIVE SumOfValues(_, _)
SumOfValues(components, keys) ==
    IF keys = {} THEN 0
    ELSE LET k == CHOOSE x \in keys : TRUE
         IN  (IF k \in DOMAIN components THEN components[k] ELSE 0)
                + SumOfValues(components, keys \ {k})

SlewAfterTransition ==
    /\ pc = "loop"
    /\ LoopCondition
    /\ new_blocks # <<>>
    /\ Last(new_blocks).kind = "trans"
    /\ scheduler.transitioner # None
    /\ scheduler.transitioner[1].slew_rate # None

(* C17: in such an iteration the transition to every pending block is a    *)
(* TransitionBlock {"slew_time": 0} at current_time, its transition_time   *)
(* is 0 and its sample times start at current_time; the block the          *)
(* iteration schedules starts at current_time.                             *)
C17_NoSlewAfterTransition ==
    /\ [](SlewAfterTransition =>
            \A i \in 1..Len(blocks) :
                /\ BlockTransition(i) # None
                /\ BlockTransition(i)[1].components
                      = [k \in {"slew_time"} |-> 0]
                /\ BlockTransition(i)[1].start_time = current_time
                /\ TransitionTime(i) = 0
                /\ Times(i)[1] = current_time)
    /\ [][(SlewAfterTransition /\ blocks' # blocks) =>
            \E i \in 1..Len(blocks) :
                /\ blocks' = RemoveAt(blocks, i)
                /\ heap'[blocks[i]].start_time = Some(current_time)
                /\ Last(new_blocks') = ObsEntry(blocks[i])]_vars

(* C17's case: a block was scheduled right after a gap that took time,     *)
(* behind a slew of no time, and starts where the gap ends.                *)
C17_Witness ==
    \E k \in 3..Len(new_blocks) :
        /\ new_blocks[k].kind = "obs"
        /\ new_blocks[k - 1].kind = "trans"
        /\ DOMAIN new_blocks[k - 1].components = {"slew_time"}
        /\ new_blocks[k - 2].kind = "trans"
        /\ DOMAIN new_blocks[k - 2].components = {"nothing_observable"}
        /\ new_blocks[k - 2].duration > 0
        /\ heap[new_blocks[k].ref].start_time
              = Some(EndTime(heap, new_blocks[k - 2]))

(* The copies a call works on, those still pending and those scheduled *)
CopiedBlocks == DOMAIN heap \ {caller_blocks[i] : i \in 1..Len(caller_blocks)}

PendingBlocks == {blocks[i] : i \in 1..Len(blocks)}

ScheduledBlocks == {new_blocks[i].ref : i \in ObsIndices(new_blocks)}

(* The block has none of the three attributes scheduling sets / has all *)
Unscheduled(b) ==
    b.start_time = None /\ b.end_time = None /\ b.constraints_value = None

Timed(b) ==
    b.start_time # None /\ b.end_time # None /\ b.constraints_value # None

(* C18: once the loop is entered every copy is either pending or in the    *)
(* schedule, not both and not twice, so the scheduled and the pending      *)
(* blocks add up to the input blocks; a block gets start_time, end_time    *)
(* and constraints_value at the step it leaves the pending list and at no  *)
(* other; blocks still pending at the return are not in the schedule.      *)
C18_BlocksConserved ==
    /\ [](pc # "idle" =>
            /\ Cardinality(PendingBlocks) = Len(blocks)
            /\ Cardinality(ScheduledBlocks) = Len(ObsRefs(new_blocks))
            /\ PendingBlocks \cap ScheduledBlocks = {}
            /\ PendingBlocks \cup ScheduledBlocks = CopiedBlocks
            /\ Len(ObsRefs(new_blocks)) + Len(blocks) = Len(caller_blocks)
            /\ \A id \in PendingBlocks : Unscheduled(heap[id])
            /\ \A id \in ScheduledBlocks : Timed(heap[id])
            /\ Returned =>
                  \A id \in PendingBlocks :
                      \A k \in ObsIndices(Schedule) : Schedule[k].ref # id)
    /\ [][\A id \in DOMAIN heap :
            (\/ heap'[id].start_time # heap[id].start_time
             \/ heap'[id].end_time # heap[id].end_time
             \/ heap'[id].constraints_value # heap[id].constraints_value)
            => /\ id \in PendingBlocks
               /\ id \notin {blocks'[i] : i \in 1..Len(blocks')}
               /\ Unscheduled(heap[id])
               /\ Timed(heap'[id])]_vars

(* C18's case: a call returned with one block scheduled and another still  *)
(* pending.                                                                *)
C18_Witness ==
    /\ Returned
    /\ Len(ObsRefs(Schedule)) >= 1
    /\ Len(blocks) >= 1

(* An entry the transitioner produced, as opposed to a gap *)
FromTransitioner(e) ==
    e.kind = "trans" /\ DOMAIN e.components # {"nothing_observable"}

(* C19: the schedule a strategy builds starts at the start of the window   *)
(* and every later entry starts where the entry before it ends; a          *)
(* TransitionBlock of the transitioner is followed at once by the          *)
(* ObservingBlock it was computed for; and after every iteration           *)
(* current_time is the end_time of the last entry.                         *)
C19_Contiguous ==
    (pc # "idle" /\ new_blocks # <<>>) =>
        /\ StartTime(heap, new_blocks[1]) = scheduler.start_time
        /\ \A k \in 2..Len(new_blocks) :
              StartTime(heap, new_blocks[k]) = EndTime(heap, new_blocks[k - 1])
        /\ \A k \in 1..Len(new_blocks) :
              FromTransitioner(new_blocks[k]) =>
                 /\ 1 < k /\ k < Len(new_blocks)
                 /\ new_blocks[k + 1].kind = "obs"
                 /\ Some(new_blocks[k])
                      = TransitionerCall(scheduler.transitioner[1], heap,
                                         new_blocks[k - 1],
                                         heap[new_blocks[k + 1].ref],
                                         EndTime(heap, new_blocks[k - 1]))
        /\ current_time = EndTime(heap, Last(new_blocks))

(* C19's case: the loop goes on behind a slew that took time and the       *)
(* block the slew was computed for, with the clock past the window's start.*)
C19_Witness ==
    /\ pc = "loop"
    /\ \E k \in 2..(Len(new_blocks) - 1) :
          /\ FromTransitioner(new_blocks[k])
          /\ new_blocks[k].duration > 0
          /\ StartTime(heap, new_blocks[k]) > scheduler.start_time
          /\ new_blocks[k + 1].kind = "obs"
    /\ current_time > EndTime(heap, new_blocks[1])

(* The step appends a "nothing_observable" gap *)
GapAppended ==
    /\ Len(new_blocks') = Len(new_blocks) + 1
    /\ Last(new_blocks').kind = "trans"
    /\ DOMAIN Last(new_blocks').components = {"nothing_observable"}

(* C20: a SummingScheduler iteration appends a gap exactly when every      *)
(* pending block is vetoed, that is has a score of 0 among the scores of   *)
(* its effective constraints at its sample times; with a pending block     *)
(* that has no such score, whatever its priority, a block is scheduled.    *)
C20_GapOnlyWhenAllVetoed ==
    [][(Scoring /\ scheduler.strategy = "Summing") =>
          /\ GapAppended <=> (\A i \in 1..Len(blocks) : SomeZero(i))
          /\ (\E i \in 1..Len(blocks) : ~SomeZero(i))
                => Len(blocks') = Len(blocks) - 1]_vars

(* A call run alone, from first to last, on block values instead of heap   *)
(* objects: bs are the pending blocks, nb the schedule so far (a block of  *)
(* the schedule is carried in the entry) and t the clock.                  *)
AloneTransition(sched, nb, b, t) ==
    IF nb = <<>> THEN None
    ELSE LET old == Last(nb)
         IN  IF old.kind = "obs"
             THEN TransitionerCall(sched.transitioner[1], <<old.block>>,
                                   ObsEntry(1), b, t)
             ELSE TransitionerCall(sched.transitioner[1], <<>>, old, b, t)

AloneScore(sched, nb, b, t) ==
    LET trans == AloneTransition(sched, nb, b, t)
        start == t + (IF trans = None THEN 0 ELSE trans[1].duration)
        times == <<start + b.duration_offsets[1][1],
                   start + b.duration_offsets[1][2],
                   start + b.duration_offsets[1][3]>>
        res == EvaluateAll(b.all_constraints[1], times)
    IN  [trans |-> trans,
         raises |-> sched.strategy = "Summing" /\ AssertionFails(res),
         value |-> IF sched.strategy = "Sequential"
                   THEN SequentialResult(res)
                   ELSE SummingResult(b.priority, res)]

RECURSIVE RunAlone(_, _, _, _)
RunAlone(sched, bs, nb, t) ==
    IF ~(Len(bs) > 0 /\ t < sched.end_time)
    THEN [error |-> "", schedule |-> Some(nb)]
    ELSE IF nb # <<>> /\ TransitionerRaises(sched.transitioner) # ""
    THEN [error |-> TransitionerRaises(sched.transitioner), schedule |-> None]
    ELSE LET scores == [i \in 1..Len(bs) |-> AloneScore(sched, nb, bs[i], t)]
             values == [i \in 1..Len(bs) |-> scores[i].value]
             best == ArgMax(values)
             trans == scores[best].trans
             start == IF trans = None THEN t ELSE t + trans[1].duration
             newb == [bs[best] EXCEPT
                        !.start_time = Some(start),
                        !.end_time = Some(start + sched.gap_time),
                        !.constraints_value = Some(values[best])]
         IN  IF \E i \in 1..Len(bs) : scores[i].raises
             THEN [error |-> "AssertionError", schedule |-> None]
             ELSE IF values[best] = 0
             THEN RunAlone(sched, bs,
                           Append(nb, GapBlock(sched.gap_time, t)),
                           t + sched.gap_time)
             ELSE RunAlone(sched, RemoveAt(bs, best),
                           (IF trans = None THEN nb ELSE Append(nb, trans[1]))
                               \o <<[kind |-> "obs", block |-> newb]>>,
                           start + sched.gap_time)

(* The block the caller handed over, as it was constructed *)
AsHandedOver(b) == ObservingBlock(b.target, b.duration, b.constraints, b.priority)

(* What the call on the list `list` comes to when it runs alone *)
AloneOutcome(list) ==
    RunAlone(scheduler,
             [i \in 1..Len(list) |->
                Prepared(scheduler.constraints, AsHandedOver(heap[list[i]]))],
             <<>>, scheduler.start_time)

(* What a finished call came to: its exception, or its schedule with the   *)
(* blocks as they are now.                                                 *)
Outcome(call) ==
    [error |-> call.error,
     schedule |->
        IF call.result = None THEN None
        ELSE Some([k \in 1..Len(call.result[1]) |->
                LET e == call.result[1][k]
                IN  IF e.kind = "obs"
                    THEN [kind |-> "obs", block |-> heap[e.ref]]
                    ELSE e])]

Finished(call) == call.pc \in {"returned", "failed"}

(* The objects of a call: the caller's blocks, the pending copies and the  *)
(* copies in its schedule.                                                 *)
WorkingSet(call) ==
    {call.caller_blocks[i] : i \in 1..Len(call.caller_blocks)}
        \cup {call.blocks[i] : i \in 1..Len(call.blocks)}
        \cup {call.new_blocks[i].ref : i \in ObsIndices(call.new_blocks)}

(* C16: with two calls on one scheduler in any interleaving of their       *)
(* steps, a finished call has come to what it comes to when it runs alone; *)
(* and no step of the running call writes the scheduler object or an       *)
(* object of the waiting call.                                             *)
C16_CallsIndependent ==
    /\ [](other # None =>
            /\ Finished(ThisCall("running")) =>
                  Outcome(ThisCall("running")) = AloneOutcome(caller_blocks)
            /\ Finished(other[1]) =>
                  Outcome(other[1]) = AloneOutcome(other[1].caller_blocks))
    /\ [][other # None =>
            /\ scheduler' = scheduler
            /\ \A id \in WorkingSet(other[1]) : heap'[id] = heap[id]]_vars

(* C16's case: the running call made its copies first and is still in its *)
(* loop with a block scheduled, while the other call, which shares a block *)
(* of the caller with it, has made its copies later and has returned a     *)
(* schedule with a block in it.                                            *)
C16_Witness ==
    /\ other # None
    /\ pc = "loop" /\ LoopCondition
    /\ other[1].pc = "returned"
    /\ \E i \in ObsIndices(new_blocks),
          j \in ObsIndices(other[1].result[1]) :
          new_blocks[i].ref < other[1].result[1][j].ref
    /\ \E i \in 1..Len(caller_blocks), j \in 1..Len(other[1].caller_blocks) :
          caller_blocks[i] = other[1].caller_blocks[j]

====
